---- MODULE Spec2Model ----
(***************************************************************************)
(* Trax layers: the layer abstraction, the data stack of the Serial and    *)
(* Branch combinators, and init, as documented in                          *)
(* src/trax/layers/intro.ipynb.                                            *)
(*                                                                         *)
(* A tensor is a row of integers; its signature (ShapeDtype) is its        *)
(* length, the dtype being float32 throughout the notebook.  A data stack  *)
(* is a sequence of tensors whose first element is the top of the stack:   *)
(* Branch(F, G, H) on inputs a, b, c gives F the item a and H the items    *)
(* a, b.  A layer always receives and returns a sequence of tensors (the   *)
(* library unwraps a sequence of length one into a bare tensor).           *)
(***************************************************************************)
EXTENDS Integers, Sequences, FiniteSets, TLC

VARIABLES
    arena,      \* the layer objects built so far; a layer's identity is its index
    store,      \* per layer object: weights, state, init flag, number of initializations
    callee,     \* the layer being called directly (NoneId when no call is in progress)
    dstack,     \* the data stack of the call in progress, top first
    pc,         \* Serial call: index of the next sublayer to apply
    slots,      \* Branch call: per sublayer, whether it was evaluated and its outputs
    cstat,      \* "idle", "running", "done" or "error"
    cerr,       \* the error that aborted the call, or NoErr
    cargs,      \* the inputs the call in progress was given
    order,      \* Branch call: the sublayers evaluated so far, in evaluation order
    lastInit    \* what the last init call was given, did and returned

vars == <<arena, store, callee, dstack, pc, slots, cstat, cerr, cargs, order, lastInit>>

----------------------------------------------------------------------------
(* Bounds of the model *)

\* longest sublayer list a combinator is built from
MaxSubs == 3
\* longest input list of a direct call
MaxInputs == 3
\* longest layer series a Residual is built from
MaxSeries == 2

\* The tensors calls are made with: shapes (1,) and (2,), mixed signs.
Tensors == { <<-1>>, <<2, -1>> }

\* The signatures init is called with.
Shapes == {1, 2}

----------------------------------------------------------------------------
(* Helpers *)

Max2(a, b) == IF a >= b THEN a ELSE b

RECURSIVE SumSeq(_)
SumSeq(s) == IF s = <<>> THEN 0 ELSE Head(s) + SumSeq(Tail(s))

RECURSIVE Flatten(_)
Flatten(ss) == IF ss = <<>> THEN <<>> ELSE Head(ss) \o Flatten(Tail(ss))

\* All sequences over S of length lo..hi.
SeqsOf(S, lo, hi) == UNION { [1..n -> S] : n \in lo..hi }

----------------------------------------------------------------------------
(* Signatures *)

\* shapes.signature: a ShapeDtype per tensor of the given tuple.
signature(obj) == [i \in 1..Len(obj) |-> Len(obj[i])]

----------------------------------------------------------------------------
(* Weights and state *)

\* EMPTY_WEIGHTS, printed "()" by the notebook.
EMPTY_WEIGHTS == [tag |-> "empty"]

EMPTY_STATE == [tag |-> "empty"]

NoErr == "none"

\* Branch(None, ...): a None argument stands for no layer object.
NoneId == 0

----------------------------------------------------------------------------
(* Leaf layers *)

\* The leaf layer classes of the notebook, and the placeholders F, G, H of
\* Branch's docstring.
LeafKinds == {"Relu", "Fn", "LayerNorm", "Add", "Concatenate", "F", "G", "H"}

\* n_in and n_out of a leaf layer class.
LeafArity(kind) ==
    CASE kind = "Relu"        -> [n_in |-> 1, n_out |-> 1]
      [] kind = "Fn"          -> [n_in |-> 1, n_out |-> 1]
      [] kind = "LayerNorm"   -> [n_in |-> 1, n_out |-> 1]
      [] kind = "Add"         -> [n_in |-> 2, n_out |-> 1]
      [] kind = "Concatenate" -> [n_in |-> 2, n_out |-> 1]
      [] kind = "F"           -> [n_in |-> 1, n_out |-> 1]
      [] kind = "G"           -> [n_in |-> 3, n_out |-> 1]
      [] kind = "H"           -> [n_in |-> 2, n_out |-> 2]

\* Only LayerNorm has weights; the others can be used without initialization.
HasWeights(kind) == kind = "LayerNorm"

\* tl.Relu: negative entries become 0.
Relu(x) == [i \in 1..Len(x) |-> IF x[i] > 0 THEN x[i] ELSE 0]

\* tl.Fn(lambda x: x * 10.0)
times_10(x) == [i \in 1..Len(x) |-> x[i] * 10]

\* Elementwise operands broadcast a row of length one.
Broadcastable(a, b) == Len(a) = Len(b) \/ Len(a) = 1 \/ Len(b) = 1

BroadcastAt(x, i) == IF Len(x) = 1 THEN x[1] ELSE x[i]

\* An Add that gave the second stream alone.
AddKeepsSecond(a, b) ==
    [i \in 1..Max2(Len(a), Len(b)) |-> BroadcastAt(b, i)]

\* tl.Add: the elementwise sum of two streams.
Add(a, b) ==
    [i \in 1..Max2(Len(a), Len(b)) |-> BroadcastAt(a, i) + BroadcastAt(b, i)]

\* tl.Concatenate: the second tensor appended to the first along the axis.
Concatenate(a, b) == a \o b

\* tl.LayerNorm: the row centred on its mean (kept in integers: scaled by the
\* row's length, the division by the deviation left to the backend), then
\* scaled and shifted by the weights.
LayerNorm(x, w) ==
    LET centred == [i \in 1..Len(x) |-> Len(x) * x[i] - SumSeq(x)]
    IN  [i \in 1..Max2(Len(x), Len(w.scale)) |->
            BroadcastAt(centred, i) * BroadcastAt(w.scale, i) + BroadcastAt(w.bias, i)]

\* F: 1 input, 1 output.  A stand-in, injective.
F(a) == [i \in 1..Len(a) |-> 2 * a[i] + 1]

\* G: 3 inputs, 1 output.  A stand-in, sensitive to the order of its arguments.
G(a, b, c) == a \o b \o c

\* H: 2 inputs, 2 outputs (h1, h2).  A stand-in, sensitive to the order of its
\* arguments and of its outputs.
H(a, b) == << a \o b \o a, b \o a >>

\* forward(inputs, weights) of a leaf layer: the outputs, or the error.
LeafForward(kind, xs, w) ==
    CASE kind = "Relu" -> [err |-> NoErr, outs |-> << Relu(xs[1]) >>]
      [] kind = "Fn"   -> [err |-> NoErr, outs |-> << times_10(xs[1]) >>]
      [] kind = "LayerNorm" ->
            IF Broadcastable(xs[1], w.scale)
            THEN [err |-> NoErr, outs |-> << LayerNorm(xs[1], w) >>]
            ELSE [err |-> "ShapeError", outs |-> <<>>]
      [] kind = "Add"  ->
            IF Broadcastable(xs[1], xs[2])
            THEN [err |-> NoErr, outs |-> << Add(xs[1], xs[2]) >>]
            ELSE [err |-> "ShapeError", outs |-> <<>>]
      [] kind = "Concatenate" ->
            [err |-> NoErr, outs |-> << Concatenate(xs[1], xs[2]) >>]
      [] kind = "F"    -> [err |-> NoErr, outs |-> << F(xs[1]) >>]
      [] kind = "G"    -> [err |-> NoErr, outs |-> << G(xs[1], xs[2], xs[3]) >>]
      [] kind = "H"    -> [err |-> NoErr, outs |-> H(xs[1], xs[2])]

\* new_weights(input_signature) of a leaf layer: LayerNorm gets a scale of
\* ones and a bias of zeros of the input's shape, the others EMPTY_WEIGHTS.
LeafNewWeights(kind, sigs) ==
    IF kind = "LayerNorm"
    THEN [tag |-> "leaf", scale |-> [i \in 1..sigs[1] |-> 1],
                          bias  |-> [i \in 1..sigs[1] |-> 0]]
    ELSE EMPTY_WEIGHTS

----------------------------------------------------------------------------
(* Layer objects *)

\* A leaf layer object of the given class.
Leaf(kind) ==
    [kind |-> kind, n_in |-> LeafArity(kind).n_in, n_out |-> LeafArity(kind).n_out,
     sublayers |-> <<>>]

\* A None that stood for a layer of no inputs.
NInNoneTakesNothing(ar, id) == IF id = NoneId THEN 0 ELSE ar[id].n_in

\* n_in / n_out of the layer object id; None in a Branch copies one input.
NIn(ar, id) == IF id = NoneId THEN 1 ELSE ar[id].n_in

NOut(ar, id) == IF id = NoneId THEN 1 ELSE ar[id].n_out

\* A combinator makes a list of layers behave as a single layer.
IsCombinator(ar, id) == id # NoneId /\ ar[id].kind \in {"Serial", "Branch"}

----------------------------------------------------------------------------
(* Arity of the combinators *)

\* Branch(*layers): as many inputs as its neediest sublayer takes, and the
\* outputs of all sublayers one after the other (Branch(F, G, H) takes 3
\* inputs and gives 4 outputs).  Computed in one pass over the sublayers.
RECURSIVE BranchArityFrom(_, _, _, _, _)
BranchArityFrom(ar, subs, k, n_in, n_out) ==
    IF k > Len(subs) THEN [n_in |-> n_in, n_out |-> n_out]
    ELSE BranchArityFrom(ar, subs, k + 1,
                         IF NIn(ar, subs[k]) > n_in THEN NIn(ar, subs[k]) ELSE n_in,
                         n_out + NOut(ar, subs[k]))

\* A Branch that added up the inputs of its sublayers, as if each sublayer
\* had inputs of its own.
BranchAritySummed(ar, subs) ==
    [n_in  |-> SumSeq([i \in 1..Len(subs) |-> NIn(ar, subs[i])]),
     n_out |-> SumSeq([i \in 1..Len(subs) |-> NOut(ar, subs[i])])]

BranchArity(ar, subs) == BranchArityFrom(ar, subs, 1, 0, 0)

\* Serial(*layers): the dry run of the data stack over the declared arities.
\* running_total is the net number of items taken off the initial stack so
\* far, running_max the deepest the sublayers reached into it.
RECURSIVE SerialArityFrom(_, _, _, _, _)
SerialArityFrom(ar, subs, k, running_max, running_total) ==
    IF k > Len(subs)
    THEN [n_in |-> running_max, n_out |-> running_max - running_total]
    ELSE LET taken == running_total + NIn(ar, subs[k])
         IN  SerialArityFrom(ar, subs, k + 1, Max2(running_max, taken),
                             taken - NOut(ar, subs[k]))

SerialArity(ar, subs) == SerialArityFrom(ar, subs, 1, 0, 0)

----------------------------------------------------------------------------
(* forward: the data stack *)

RECURSIVE Forward(_, _, _, _)
RECURSIVE SerialStep(_, _, _, _)
RECURSIVE SerialForward(_, _, _, _, _)
RECURSIVE BranchSibling(_, _, _, _)
RECURSIVE BranchForward(_, _, _, _, _)

\* A Serial that left on the stack the items it passed to layer k.
SerialStepKeepsInputs(ar, st, k, stack) ==
    IF Len(stack) < NIn(ar, k)
    THEN [err |-> "StackUnderflowError", outs |-> stack]
    ELSE LET r == Forward(ar, st, k, SubSeq(stack, 1, NIn(ar, k)))
         IN  IF r.err # NoErr
             THEN [err |-> r.err, outs |-> stack]
             ELSE [err |-> NoErr, outs |-> r.outs \o stack]

\* A Serial that pushed only the first return value of layer k.
SerialStepPushesOne(ar, st, k, stack) ==
    IF Len(stack) < NIn(ar, k)
    THEN [err |-> "StackUnderflowError", outs |-> stack]
    ELSE LET r == Forward(ar, st, k, SubSeq(stack, 1, NIn(ar, k)))
         IN  IF r.err # NoErr
             THEN [err |-> r.err, outs |-> stack]
             ELSE [err |-> NoErr,
                   outs |-> SubSeq(r.outs, 1, 1)
                               \o SubSeq(stack, NIn(ar, k) + 1, Len(stack))]

\* A Serial that passed the items to layer k in the order it took them off,
\* one by one: the item nearest the top last.
SerialStepReversesInputs(ar, st, k, stack) ==
    IF Len(stack) < NIn(ar, k)
    THEN [err |-> "StackUnderflowError", outs |-> stack]
    ELSE LET r == Forward(ar, st, k, [i \in 1..NIn(ar, k) |-> stack[NIn(ar, k) + 1 - i]])
         IN  IF r.err # NoErr
             THEN [err |-> r.err, outs |-> stack]
             ELSE [err |-> NoErr,
                   outs |-> r.outs \o SubSeq(stack, NIn(ar, k) + 1, Len(stack))]

\* A Serial that pushed the return values of layer k one by one, the first
\* ending deepest and the last on top.
SerialStepReversesOutputs(ar, st, k, stack) ==
    IF Len(stack) < NIn(ar, k)
    THEN [err |-> "StackUnderflowError", outs |-> stack]
    ELSE LET r == Forward(ar, st, k, SubSeq(stack, 1, NIn(ar, k)))
         IN  IF r.err # NoErr
             THEN [err |-> r.err, outs |-> stack]
             ELSE [err |-> NoErr,
                   outs |-> [i \in 1..Len(r.outs) |-> r.outs[Len(r.outs) + 1 - i]]
                               \o SubSeq(stack, NIn(ar, k) + 1, Len(stack))]

\* A Serial whose stack, after layer k, held the return values of layer k
\* and nothing of what was below the items it took.
SerialStepDropsRest(ar, st, k, stack) ==
    IF Len(stack) < NIn(ar, k)
    THEN [err |-> "StackUnderflowError", outs |-> stack]
    ELSE LET r == Forward(ar, st, k, SubSeq(stack, 1, NIn(ar, k)))
         IN  IF r.err # NoErr
             THEN [err |-> r.err, outs |-> stack]
             ELSE [err |-> NoErr, outs |-> r.outs]

\* Serial, one sublayer: take n_in items off the top of the stack (n_in =
\* k.n_in), call layer k with them, and push its n_out return values onto
\* the stack.
SerialStep(ar, st, k, stack) ==
    IF Len(stack) < NIn(ar, k)
    THEN [err |-> "StackUnderflowError", outs |-> stack]
    ELSE LET r == Forward(ar, st, k, SubSeq(stack, 1, NIn(ar, k)))
         IN  IF r.err # NoErr
             THEN [err |-> r.err, outs |-> stack]
             ELSE [err |-> NoErr,
                   outs |-> r.outs \o SubSeq(stack, NIn(ar, k) + 1, Len(stack))]

\* A Serial that applied its k-th sublayer and none after it.
SerialForwardFirstOnly(ar, st, subs, k, stack) ==
    IF k > Len(subs) THEN [err |-> NoErr, outs |-> stack]
    ELSE SerialStep(ar, st, subs[k], stack)

\* Serial: the sublayers from the k-th on, each called with the stack in the
\* state its predecessor left.
SerialForward(ar, st, subs, k, stack) ==
    IF k > Len(subs) THEN [err |-> NoErr, outs |-> stack]
    ELSE LET r == SerialStep(ar, st, subs[k], stack)
         IN  IF r.err # NoErr THEN r
             ELSE SerialForward(ar, st, subs, k + 1, r.outs)

\* A Branch sublayer that took its inputs from the bottom of the stack.
BranchSiblingFromBottom(ar, st, k, inputs) ==
    Forward(ar, st, k, SubSeq(inputs, Len(inputs) - NIn(ar, k) + 1, Len(inputs)))

\* Branch, one sublayer: it is applied to a copy of as many of the Branch's
\* inputs as it needs.
BranchSibling(ar, st, k, inputs) ==
    Forward(ar, st, k, SubSeq(inputs, 1, NIn(ar, k)))

\* Branch: the outputs of the sublayers from the k-th on, successively
\* combined.
BranchForward(ar, st, subs, k, inputs) ==
    IF k > Len(subs) THEN [err |-> NoErr, outs |-> <<>>]
    ELSE LET r == BranchSibling(ar, st, subs[k], inputs)
         IN  IF r.err # NoErr THEN r
             ELSE LET rest == BranchForward(ar, st, subs, k + 1, inputs)
                  IN  IF rest.err # NoErr THEN rest
                      ELSE [err |-> NoErr, outs |-> r.outs \o rest.outs]

\* A forward that, for a layer with weights that was never initialized,
\* created the weights from the inputs it was called with and went on.
ForwardLazyInit(ar, st, id, xs) ==
    IF id = NoneId THEN [err |-> NoErr, outs |-> xs]
    ELSE IF ar[id].kind = "Serial"
         THEN SerialForward(ar, st, ar[id].sublayers, 1, xs)
    ELSE IF ar[id].kind = "Branch"
         THEN LET r == BranchForward(ar, st, ar[id].sublayers, 1, xs)
              IN  IF r.err # NoErr THEN r
                  ELSE [err |-> NoErr,
                        outs |-> r.outs \o SubSeq(xs, ar[id].n_in + 1, Len(xs))]
    ELSE IF HasWeights(ar[id].kind) /\ ~st[id].init_finished
         THEN LeafForward(ar[id].kind, xs, LeafNewWeights(ar[id].kind, signature(xs)))
    ELSE LeafForward(ar[id].kind, xs, st[id].weights)

\* The layer id applied to exactly its n_in inputs xs: the outputs, or the
\* error that aborts the call.  None copies its input; a layer with weights
\* must have been initialized.
Forward(ar, st, id, xs) ==
    IF id = NoneId THEN [err |-> NoErr, outs |-> xs]
    ELSE IF ar[id].kind = "Serial"
         THEN SerialForward(ar, st, ar[id].sublayers, 1, xs)
    ELSE IF ar[id].kind = "Branch"
         THEN LET r == BranchForward(ar, st, ar[id].sublayers, 1, xs)
              IN  IF r.err # NoErr THEN r
                  ELSE [err |-> NoErr,
                        outs |-> r.outs \o SubSeq(xs, ar[id].n_in + 1, Len(xs))]
    ELSE IF HasWeights(ar[id].kind) /\ ~st[id].init_finished
         THEN [err |-> "UninitializedLayerError", outs |-> <<>>]
    ELSE LeafForward(ar[id].kind, xs, st[id].weights)

----------------------------------------------------------------------------
(* init: weights and state from input signatures *)

\* The signatures of a leaf layer's outputs, given those of its inputs.
LeafOutSigs(kind, sigs) ==
    CASE kind \in {"Relu", "Fn", "LayerNorm", "F"} ->
            [err |-> NoErr, sigs |-> << sigs[1] >>]
      [] kind = "Add" ->
            IF sigs[1] = sigs[2] \/ sigs[1] = 1 \/ sigs[2] = 1
            THEN [err |-> NoErr, sigs |-> << Max2(sigs[1], sigs[2]) >>]
            ELSE [err |-> "ShapeError", sigs |-> <<>>]
      [] kind = "Concatenate" ->
            [err |-> NoErr, sigs |-> << sigs[1] + sigs[2] >>]
      [] kind = "G" ->
            [err |-> NoErr, sigs |-> << sigs[1] + sigs[2] + sigs[3] >>]
      [] kind = "H" ->
            [err |-> NoErr, sigs |-> << sigs[1] + sigs[2] + sigs[1], sigs[2] + sigs[1] >>]

RECURSIVE OutSigs(_, _, _)
RECURSIVE SerialOutSigs(_, _, _, _)
RECURSIVE BranchOutSigs(_, _, _, _)

\* Serial over signatures: the stack of signatures after the sublayers from
\* the k-th on.
SerialOutSigs(ar, subs, k, stack) ==
    IF k > Len(subs) THEN [err |-> NoErr, sigs |-> stack]
    ELSE IF Len(stack) < NIn(ar, subs[k])
         THEN [err |-> "StackUnderflowError", sigs |-> stack]
    ELSE LET r == OutSigs(ar, subs[k], SubSeq(stack, 1, NIn(ar, subs[k])))
         IN  IF r.err # NoErr THEN r
             ELSE SerialOutSigs(ar, subs, k + 1,
                     r.sigs \o SubSeq(stack, NIn(ar, subs[k]) + 1, Len(stack)))

\* Branch over signatures: the output signatures of the sublayers from the
\* k-th on, one after the other.
BranchOutSigs(ar, subs, k, sigs) ==
    IF k > Len(subs) THEN [err |-> NoErr, sigs |-> <<>>]
    ELSE LET r == OutSigs(ar, subs[k], SubSeq(sigs, 1, NIn(ar, subs[k])))
         IN  IF r.err # NoErr THEN r
             ELSE LET rest == BranchOutSigs(ar, subs, k + 1, sigs)
                  IN  IF rest.err # NoErr THEN rest
                      ELSE [err |-> NoErr, sigs |-> r.sigs \o rest.sigs]

\* The signatures of the outputs of layer id, given those of its inputs.
OutSigs(ar, id, sigs) ==
    IF id = NoneId THEN [err |-> NoErr, sigs |-> sigs]
    ELSE IF ar[id].kind = "Serial" THEN SerialOutSigs(ar, ar[id].sublayers, 1, sigs)
    ELSE IF ar[id].kind = "Branch"
         THEN LET r == BranchOutSigs(ar, ar[id].sublayers, 1, sigs)
              IN  IF r.err # NoErr THEN r
                  ELSE [err |-> NoErr,
                        sigs |-> r.sigs \o SubSeq(sigs, ar[id].n_in + 1, Len(sigs))]
    ELSE LeafOutSigs(ar[id].kind, sigs)

\* One entry of the log of an init walk: init was called on the layer object
\* id with the signatures sigs, and created its weights (first) or not.
Visit(id, sigs, first) == [id |-> id, sigs |-> sigs, first |-> first]

\* A combinator's weights that left out the entries of the sublayers that
\* have no weights.
CompositeWithoutEmpty(results) ==
    [tag |-> "comp", subs |-> SelectSeq(results, LAMBDA w : w # [tag |-> "empty"])]

\* The weights (or state) of a combinator: its sublayers' results, in order.
Composite(results) == [tag |-> "comp", subs |-> results]

\* init on an initialized layer object that created its weights once more,
\* for the signatures of this call.
InitAgainRecreated(ar, st, id, sigs) ==
    LET w == IF ~IsCombinator(ar, id) THEN LeafNewWeights(ar[id].kind, sigs)
             ELSE st[id].weights
    IN  [st |-> [st EXCEPT ![id].weights = w, ![id].n_init = @ + 1],
         weights |-> EMPTY_WEIGHTS, state |-> st[id].state, err |-> NoErr,
         log |-> << Visit(id, sigs, FALSE) >>]

\* init on an initialized layer object that rejected signatures its stored
\* weights were not created for.
InitAgainChecked(ar, st, id, sigs) ==
    IF ~IsCombinator(ar, id) /\ LeafNewWeights(ar[id].kind, sigs) # st[id].weights
    THEN [st |-> st, weights |-> EMPTY_WEIGHTS, state |-> EMPTY_STATE,
          err |-> "SignatureConflictError", log |-> << Visit(id, sigs, FALSE) >>]
    ELSE [st |-> st, weights |-> EMPTY_WEIGHTS, state |-> st[id].state,
          err |-> NoErr, log |-> << Visit(id, sigs, FALSE) >>]

\* init on an initialized layer object that handed out the stored weights.
InitAgainStored(ar, st, id, sigs) ==
    [st |-> st, weights |-> st[id].weights, state |-> st[id].state, err |-> NoErr,
     log |-> << Visit(id, sigs, FALSE) >>]

\* init, a subsequent call on the same layer object: the object was
\* initialized once and stays as it is, whatever the signatures; the weights
\* returned are EMPTY_WEIGHTS.
InitAgain(ar, st, id, sigs) ==
    [st |-> st, weights |-> EMPTY_WEIGHTS, state |-> st[id].state, err |-> NoErr,
     log |-> << Visit(id, sigs, FALSE) >>]

\* A first init that created and returned the weights without recording that
\* the layer object is initialized.
InitLeafUnmarked(ar, st, id, sigs) ==
    LET w == LeafNewWeights(ar[id].kind, sigs)
    IN  [st |-> [st EXCEPT ![id] = [weights |-> w, state |-> EMPTY_STATE,
                                    init_finished |-> FALSE, n_init |-> @.n_init + 1]],
         weights |-> w, state |-> EMPTY_STATE, err |-> NoErr,
         log |-> << Visit(id, sigs, TRUE) >>]

\* init, the first call on a leaf layer object: its new weights are created
\* for the input signatures, stored in the object and returned.
InitLeaf(ar, st, id, sigs) ==
    LET w == LeafNewWeights(ar[id].kind, sigs)
    IN  [st |-> [st EXCEPT ![id] = [weights |-> w, state |-> EMPTY_STATE,
                                    init_finished |-> TRUE, n_init |-> @.n_init + 1]],
         weights |-> w, state |-> EMPTY_STATE, err |-> NoErr,
         log |-> << Visit(id, sigs, TRUE) >>]

RECURSIVE InitWalk(_, _, _, _)
RECURSIVE InitSublayers(_, _, _, _, _, _)

\* An init that gave every sublayer the first of the combinator's own input
\* signatures, whatever the sublayers before it put on the stack.
InitSublayersFromInputs(ar, id, k, stack, inputs, acc) ==
    IF k > Len(ar[id].sublayers) THEN acc
    ELSE LET sub  == ar[id].sublayers[k]
             mine == SubSeq(inputs \o stack, 1, NIn(ar, sub))
             r    == InitWalk(ar, acc.st, sub, mine)
             outs == OutSigs(ar, sub, SubSeq(stack, 1, NIn(ar, sub)))
             next == [st |-> r.st,
                      weights |-> Append(acc.weights, r.weights),
                      state |-> Append(acc.state, r.state),
                      err |-> IF r.err # NoErr THEN r.err ELSE outs.err,
                      log |-> acc.log \o r.log]
         IN  IF next.err # NoErr THEN next
             ELSE InitSublayers(ar, id, k + 1,
                     outs.sigs \o SubSeq(stack, NIn(ar, sub) + 1, Len(stack)),
                     inputs, next)

\* An init that initialized the first sublayer of a combinator and left the
\* others as they were.
InitSublayersFirstOnly(ar, id, k, stack, inputs, acc) ==
    IF k > Len(ar[id].sublayers) \/ k > 1 THEN acc
    ELSE LET sub  == ar[id].sublayers[k]
             mine == IF ar[id].kind = "Serial"
                     THEN SubSeq(stack, 1, NIn(ar, sub))
                     ELSE SubSeq(inputs, 1, NIn(ar, sub))
             r    == InitWalk(ar, acc.st, sub, mine)
             outs == OutSigs(ar, sub, mine)
             next == [st |-> r.st,
                      weights |-> Append(acc.weights, r.weights),
                      state |-> Append(acc.state, r.state),
                      err |-> IF r.err # NoErr THEN r.err ELSE outs.err,
                      log |-> acc.log \o r.log]
         IN  IF next.err # NoErr THEN next
             ELSE InitSublayers(ar, id, k + 1,
                     outs.sigs \o SubSeq(stack, NIn(ar, sub) + 1, Len(stack)),
                     inputs, next)

\* init of the sublayers of the combinator id from the k-th on, in order,
\* acc holding the store, the results and the log so far.  A Serial sublayer
\* is given the signatures on top of the stack of signatures, which then
\* holds its output signatures instead; a Branch sublayer is given a copy of
\* as many of the Branch's input signatures as it needs.
InitSublayers(ar, id, k, stack, inputs, acc) ==
    IF k > Len(ar[id].sublayers) THEN acc
    ELSE LET sub  == ar[id].sublayers[k]
             mine == IF ar[id].kind = "Serial"
                     THEN SubSeq(stack, 1, NIn(ar, sub))
                     ELSE SubSeq(inputs, 1, NIn(ar, sub))
             r    == InitWalk(ar, acc.st, sub, mine)
             outs == OutSigs(ar, sub, mine)
             next == [st |-> r.st,
                      weights |-> Append(acc.weights, r.weights),
                      state |-> Append(acc.state, r.state),
                      err |-> IF r.err # NoErr THEN r.err ELSE outs.err,
                      log |-> acc.log \o r.log]
         IN  IF next.err # NoErr THEN next
             ELSE InitSublayers(ar, id, k + 1,
                     outs.sigs \o SubSeq(stack, NIn(ar, sub) + 1, Len(stack)),
                     inputs, next)

\* An init that initialized a layer object afresh on every call, initialized
\* before or not.
InitWalkEveryCall(ar, st, id, sigs) ==
    IF id = NoneId
    THEN [st |-> st, weights |-> EMPTY_WEIGHTS, state |-> EMPTY_STATE,
          err |-> NoErr, log |-> <<>>]
    ELSE IF ~IsCombinator(ar, id) THEN InitLeaf(ar, st, id, sigs)
    ELSE LET r == InitSublayers(ar, id, 1, sigs, sigs,
                     [st |-> st, weights |-> <<>>, state |-> <<>>,
                      err |-> NoErr, log |-> << Visit(id, sigs, TRUE) >>])
         IN  IF r.err # NoErr
             THEN [r EXCEPT !.weights = EMPTY_WEIGHTS, !.state = EMPTY_STATE]
             ELSE [st |-> [r.st EXCEPT ![id] =
                              [weights |-> Composite(r.weights),
                               state |-> Composite(r.state),
                               init_finished |-> TRUE, n_init |-> @.n_init + 1]],
                   weights |-> Composite(r.weights), state |-> Composite(r.state),
                   err |-> NoErr, log |-> r.log]

\* init(input_signature): initializes this layer and its sublayers
\* recursively, each layer object once even if it occurs in several places.
\* Returns the store, the (weights, state) pair, the error that aborted the
\* walk if any, and the log of the walk.
InitWalk(ar, st, id, sigs) ==
    IF id = NoneId
    THEN [st |-> st, weights |-> EMPTY_WEIGHTS, state |-> EMPTY_STATE,
          err |-> NoErr, log |-> <<>>]
    ELSE IF st[id].init_finished THEN InitAgain(ar, st, id, sigs)
    ELSE IF ~IsCombinator(ar, id) THEN InitLeaf(ar, st, id, sigs)
    ELSE LET r == InitSublayers(ar, id, 1, sigs, sigs,
                     [st |-> st, weights |-> <<>>, state |-> <<>>,
                      err |-> NoErr, log |-> << Visit(id, sigs, TRUE) >>])
         IN  IF r.err # NoErr
             THEN [r EXCEPT !.weights = EMPTY_WEIGHTS, !.state = EMPTY_STATE]
             ELSE [st |-> [r.st EXCEPT ![id] =
                              [weights |-> Composite(r.weights),
                               state |-> Composite(r.state),
                               init_finished |-> TRUE, n_init |-> @.n_init + 1]],
                   weights |-> Composite(r.weights), state |-> Composite(r.state),
                   err |-> NoErr, log |-> r.log]

----------------------------------------------------------------------------
(* The program: layers are built, initialized and called *)

\* The leaf layer objects the notebook creates, one per class.
Catalog ==
    << Leaf("Relu"), Leaf("Fn"), Leaf("LayerNorm"), Leaf("Add"),
       Leaf("Concatenate"), Leaf("F"), Leaf("G"), Leaf("H") >>

\* The object of the given leaf class in Catalog.
IdOf(kind) == CHOOSE i \in 1..Len(Catalog) : Catalog[i].kind = kind

\* A layer object as constructed: weights and state are the empty sentinels.
Fresh ==
    [weights |-> EMPTY_WEIGHTS, state |-> EMPTY_STATE,
     init_finished |-> FALSE, n_init |-> 0]

\* No init call was made yet.
NoInit ==
    [root |-> NoneId, sigs |-> <<>>, first |-> FALSE, before |-> <<>>,
     weights |-> EMPTY_WEIGHTS, state |-> EMPTY_STATE, err |-> NoErr, log |-> <<>>]

Init ==
    /\ arena = Catalog
    /\ store = [id \in 1..Len(Catalog) |-> Fresh]
    /\ callee = NoneId
    /\ dstack = <<>>
    /\ pc = 0
    /\ slots = <<>>
    /\ cstat = "idle"
    /\ cerr = NoErr
    /\ cargs = <<>>
    /\ order = <<>>
    /\ lastInit = NoInit

Ids == 1..Len(arena)

\* A new layer object enters the arena uninitialized.
Construct(layer) ==
    /\ cstat # "running"
    /\ arena' = Append(arena, layer)
    /\ store' = Append(store, Fresh)
    /\ UNCHANGED <<callee, dstack, pc, slots, cstat, cerr, cargs, order, lastInit>>

\* The layer object Branch(*layers) returns, its sublayers being objects of ar.
Branch(ar, subs) ==
    [kind |-> "Branch", n_in |-> BranchArity(ar, subs).n_in,
     n_out |-> BranchArity(ar, subs).n_out, sublayers |-> subs]

\* A Serial that, built from no layers, declared one input and one output.
SerialEmptyOneInOneOut(ar, subs) ==
    [kind |-> "Serial",
     n_in |-> IF subs = <<>> THEN 1 ELSE SerialArity(ar, subs).n_in,
     n_out |-> IF subs = <<>> THEN 1 ELSE SerialArity(ar, subs).n_out,
     sublayers |-> subs]

\* The layer object Serial(*layers) returns, its sublayers being objects of ar.
Serial(ar, subs) ==
    [kind |-> "Serial", n_in |-> SerialArity(ar, subs).n_in,
     n_out |-> SerialArity(ar, subs).n_out, sublayers |-> subs]

\* tl.Branch(*layers); a None argument is the no-op that copies one input.
MakeBranch(subs) ==
    /\ \A i \in 1..Len(subs) : subs[i] \in Ids \cup {NoneId}
    /\ Construct(Branch(arena, subs))

\* tl.Serial(*layers)
MakeSerial(subs) ==
    /\ \A i \in 1..Len(subs) : subs[i] \in Ids
    /\ Construct(Serial(arena, subs))

\* _ensure_flat(layers): the layers of a list whose items are layers or
\* lists of layers, in order.  An item is given as the list of its layers.
ensure_flat(layers) == Flatten(layers)

\* A Residual that, when no shortcut is given, returned the layer series
\* alone.
ResidualSpecialCased(ar, layers, shortcut) ==
    LET flat  == ensure_flat(layers)
        ar1   == IF Len(flat) = 1 THEN ar ELSE Append(ar, Serial(ar, flat))
        layer == IF Len(flat) = 1 THEN flat[1] ELSE Len(ar1)
        ar2   == Append(ar1, Branch(ar1, << shortcut, layer >>))
        ar3   == Append(ar2, Leaf("Add"))
    IN  IF shortcut = NoneId THEN Append(ar1, Serial(ar1, << layer >>))
        ELSE Append(ar3, Serial(ar3, << Len(ar2), Len(ar3) >>))

\* Residual(*layers, shortcut=None): the arena after the call, the layer it
\* returns being the last object.
\*   layers = _ensure_flat(layers)
\*   layer = layers[0] if len(layers) == 1 else Serial(layers)
\*   return Serial(Branch(shortcut, layer), Add())
Residual(ar, layers, shortcut) ==
    LET flat  == ensure_flat(layers)
        ar1   == IF Len(flat) = 1 THEN ar ELSE Append(ar, Serial(ar, flat))
        layer == IF Len(flat) = 1 THEN flat[1] ELSE Len(ar1)
        ar2   == Append(ar1, Branch(ar1, << shortcut, layer >>))
        ar3   == Append(ar2, Leaf("Add"))
    IN  Append(ar3, Serial(ar3, << Len(ar2), Len(ar3) >>))

\* tl.Residual(*layers, shortcut=...): every layer object the call
\* constructs enters the arena uninitialized.
MakeResidual(layers, shortcut) ==
    /\ cstat # "running"
    /\ \A i \in 1..Len(layers) : \A j \in 1..Len(layers[i]) : layers[i][j] \in Ids
    /\ shortcut \in Ids \cup {NoneId}
    /\ arena' = Residual(arena, layers, shortcut)
    /\ store' = store \o [i \in 1..(Len(arena') - Len(arena)) |-> Fresh]
    /\ UNCHANGED <<callee, dstack, pc, slots, cstat, cerr, cargs, order, lastInit>>

\* An arity check that let a call with more inputs than n_in through.
ArityMismatchTooFewOnly(id, inputs) == Len(inputs) < arena[id].n_in

\* A direct call with another number of inputs than the layer's n_in is an
\* arity mismatch.
ArityMismatch(id, inputs) == Len(inputs) # arena[id].n_in

\* A call that, finding the layer uninitialized, initialized it with the
\* signature of the inputs before running forward.
CallInitializes(id, inputs) ==
    /\ cstat # "running"
    /\ id \in Ids
    /\ callee' = id
    /\ cargs' = inputs
    /\ pc' = 1
    /\ order' = <<>>
    /\ store' = IF ArityMismatch(id, inputs) THEN store
                ELSE InitWalk(arena, store, id, signature(inputs)).st
    /\ IF ArityMismatch(id, inputs)
       THEN /\ cstat' = "error"
            /\ cerr' = "ArityMismatchError"
            /\ dstack' = <<>>
            /\ slots' = <<>>
       ELSE IF IsCombinator(arena, id)
       THEN /\ cstat' = "running"
            /\ cerr' = NoErr
            /\ dstack' = inputs
            /\ slots' = [i \in 1..Len(arena[id].sublayers) |->
                            [done |-> FALSE, outs |-> <<>>]]
       ELSE LET r == Forward(arena, store', id, inputs)
            IN  /\ cstat' = IF r.err = NoErr THEN "done" ELSE "error"
                /\ cerr' = r.err
                /\ dstack' = r.outs
                /\ slots' = <<>>
    /\ UNCHANGED <<arena, lastInit>>

\* y = layer(x): the inputs are counted against n_in, then forward runs.  A
\* leaf layer answers at once; a combinator starts working through its
\* sublayers on a data stack holding the inputs.
Call(id, inputs) ==
    /\ cstat # "running"
    /\ id \in Ids
    /\ callee' = id
    /\ cargs' = inputs
    /\ pc' = 1
    /\ order' = <<>>
    /\ IF ArityMismatch(id, inputs)
       THEN /\ cstat' = "error"
            /\ cerr' = "ArityMismatchError"
            /\ dstack' = <<>>
            /\ slots' = <<>>
       ELSE IF IsCombinator(arena, id)
       THEN /\ cstat' = "running"
            /\ cerr' = NoErr
            /\ dstack' = inputs
            /\ slots' = [i \in 1..Len(arena[id].sublayers) |->
                            [done |-> FALSE, outs |-> <<>>]]
       ELSE LET r == Forward(arena, store, id, inputs)
            IN  /\ cstat' = IF r.err = NoErr THEN "done" ELSE "error"
                /\ cerr' = r.err
                /\ dstack' = r.outs
                /\ slots' = <<>>
    /\ UNCHANGED <<arena, store, lastInit>>

\* layer.init(signature(x)): the whole walk.  lastInit keeps what the call was
\* given (the layer, the signatures, the store before the call, whether the
\* layer was uninitialized) and what it returned.
InitCall(id, sigs) ==
    /\ cstat # "running"
    /\ id \in Ids
    /\ Len(sigs) = arena[id].n_in
    /\ LET r == InitWalk(arena, store, id, sigs)
       IN  /\ store' = r.st
           /\ lastInit' = [root |-> id, sigs |-> sigs,
                           first |-> ~store[id].init_finished, before |-> store,
                           weights |-> r.weights, state |-> r.state,
                           err |-> r.err, log |-> r.log]
    /\ UNCHANGED <<arena, callee, dstack, pc, slots, cstat, cerr, cargs, order>>

\* The Serial being called applies its next sublayer to the data stack.
StepSerial ==
    /\ cstat = "running"
    /\ arena[callee].kind = "Serial"
    /\ pc <= Len(arena[callee].sublayers)
    /\ LET r == SerialStep(arena, store, arena[callee].sublayers[pc], dstack)
       IN  /\ dstack' = r.outs
           /\ cerr' = r.err
           /\ cstat' = IF r.err = NoErr THEN "running" ELSE "error"
    /\ pc' = pc + 1
    /\ UNCHANGED <<arena, store, callee, slots, cargs, order, lastInit>>

\* What the stack looks like to a sublayer of the Branch being called had each
\* sublayer taken its inputs off the very stack its siblings read: the items
\* the sublayers evaluated before it took are gone from the top.
BranchInputsConsumed ==
    LET RECURSIVE Taken(_)
        Taken(k) == IF k = 0 THEN 0
                    ELSE Taken(k - 1) + NIn(arena, arena[callee].sublayers[order[k]])
        c == IF Len(cargs) = 0 THEN 0 ELSE Taken(Len(order)) % Len(cargs)
    IN  SubSeq(cargs, c + 1, Len(cargs)) \o SubSeq(cargs, 1, c)

\* What the stack looks like to a sublayer of the Branch being called: a copy
\* of the inputs the Branch was given, whichever siblings ran before it.
BranchInputs == cargs

\* The Branch being called evaluates its i-th sublayer, in whatever order the
\* sublayers come to be evaluated.
StepBranch(i) ==
    /\ cstat = "running"
    /\ arena[callee].kind = "Branch"
    /\ i \in 1..Len(slots)
    /\ ~slots[i].done
    /\ LET r == BranchSibling(arena, store, arena[callee].sublayers[i], BranchInputs)
       IN  /\ slots' = [slots EXCEPT ![i] = [done |-> TRUE, outs |-> r.outs]]
           /\ order' = Append(order, i)
           /\ cerr' = r.err
           /\ cstat' = IF r.err = NoErr THEN "running" ELSE "error"
    /\ UNCHANGED <<arena, store, callee, dstack, pc, cargs, lastInit>>

\* The call returns: a Serial returns what is left on the data stack, a
\* Branch the outputs of its sublayers combined in sublayer order.
Return ==
    /\ cstat = "running"
    /\ \/ /\ arena[callee].kind = "Serial"
          /\ pc > Len(arena[callee].sublayers)
          /\ dstack' = dstack
       \/ /\ arena[callee].kind = "Branch"
          /\ \A i \in 1..Len(slots) : slots[i].done
          /\ dstack' = Flatten([i \in 1..Len(slots) |-> slots[i].outs])
                         \o SubSeq(dstack, arena[callee].n_in + 1, Len(dstack))
    /\ cstat' = "done"
    /\ UNCHANGED <<arena, store, callee, pc, slots, cerr, cargs, order, lastInit>>

----------------------------------------------------------------------------
(* Specifications *)

\* The layers a Branch is built from in SpecBranch: the F, G, H of Branch's
\* docstring, or the relu and times_10 of Example 5 and the None of Residual.
BranchParts ==
    { {IdOf("F"), IdOf("G"), IdOf("H")}, {NoneId, IdOf("Relu"), IdOf("Fn")} }

\* One Branch is built from leaf layers and called.
NextBranch ==
    \/ \E parts \in BranchParts : \E subs \in SeqsOf(parts, 0, MaxSubs) :
          Len(arena) = Len(Catalog) /\ MakeBranch(subs)
    \/ \E inputs \in SeqsOf(Tensors, 0, MaxInputs) :
          Len(arena) > Len(Catalog) /\ cstat = "idle" /\ Call(Len(arena), inputs)
    \/ \E i \in 1..MaxSubs : StepBranch(i)
    \/ Return

SpecBranch == Init /\ [][NextBranch]_vars

\* The layers a Serial is built from in SpecSerial: the relu and layer norm
\* of Example 4 and the Add of Residual, or the F, G, H of Branch's docstring.
SerialParts ==
    { {IdOf("Relu"), IdOf("LayerNorm"), IdOf("Add")}, {IdOf("F"), IdOf("G"), IdOf("H")} }

\* One Serial is built from leaf layers, initialized with the signature of
\* its inputs and called with them, as in Example 4.
NextSerial ==
    \/ \E parts \in SerialParts : \E subs \in SeqsOf(parts, 0, MaxSubs) :
          Len(arena) = Len(Catalog) /\ MakeSerial(subs)
    \/ \E inputs \in SeqsOf(Tensors, 0, MaxInputs) :
          /\ Len(arena) > Len(Catalog)
          /\ lastInit = NoInit
          /\ InitCall(Len(arena), signature(inputs))
    \/ \E inputs \in SeqsOf(Tensors, 0, MaxInputs) :
          /\ Len(arena) > Len(Catalog)
          /\ cstat = "idle"
          /\ \/ Len(inputs) # arena[Len(arena)].n_in
             \/ lastInit.root = Len(arena) /\ lastInit.sigs = signature(inputs)
          /\ Call(Len(arena), inputs)
    \/ StepSerial
    \/ Return

SpecSerial == Init /\ [][NextSerial]_vars

\* The layers a combinator is built from in SpecInit: a layer with weights, a
\* layer without, and one whose output has another shape than its inputs.
InitParts == {IdOf("LayerNorm"), IdOf("Relu"), IdOf("Concatenate")}

\* One combinator is built from leaf layers, any of them several times; init
\* is called on it and on the layer norm, any number of times with any
\* signatures.
NextInit ==
    \/ \E subs \in SeqsOf(InitParts, 0, MaxSubs) :
          Len(arena) = Len(Catalog) /\ MakeSerial(subs)
    \/ \E subs \in SeqsOf(InitParts, 0, MaxSubs) :
          Len(arena) = Len(Catalog) /\ MakeBranch(subs)
    \/ \E sigs \in SeqsOf(Shapes, 0, MaxInputs) :
          \E id \in {IdOf("LayerNorm"), Len(arena)} : InitCall(id, sigs)

SpecInit == Init /\ [][NextInit]_vars

\* The leaf layers are called directly, as in Examples 1 to 3, with any
\* number of inputs; the layer norm and the relu before or after their init.
NextLeaf ==
    \/ \E id \in {IdOf("LayerNorm"), IdOf("Relu")} :
          \E sigs \in SeqsOf(Shapes, 0, MaxInputs) : InitCall(id, sigs)
    \/ \E id \in 1..Len(Catalog) : \E inputs \in SeqsOf(Tensors, 0, MaxInputs) :
          Call(id, inputs)

SpecLeaf == Init /\ [][NextLeaf]_vars

\* The layers a Residual is built from in SpecResidual besides the Serial
\* built before it: layers of one input and one output, with and without
\* weights, and a layer that merges two inputs.
ResidualParts == {IdOf("Relu"), IdOf("LayerNorm"), IdOf("Concatenate")}

\* The shortcuts a Residual is given in SpecResidual: none, or a layer.
Shortcuts == {NoneId, IdOf("Fn")}

\* A Serial is built, empty or of one layer; then a Residual is built from a
\* series of layers, given as one list or split into two, the Serial among
\* them or not; the Residual is initialized or not, and called.
NextResidual ==
    \/ \E subs \in SeqsOf({IdOf("Relu")}, 0, 1) :
          Len(arena) = Len(Catalog) /\ MakeSerial(subs)
    \/ \E flat \in SeqsOf(ResidualParts \cup {Len(Catalog) + 1}, 1, MaxSeries) :
          \E cut \in 0..Len(flat) : \E shortcut \in Shortcuts :
             /\ Len(arena) = Len(Catalog) + 1
             /\ MakeResidual(<< SubSeq(flat, 1, cut), SubSeq(flat, cut + 1, Len(flat)) >>,
                             shortcut)
    \/ \E inputs \in SeqsOf(Tensors, 0, MaxInputs) :
          /\ Len(arena) > Len(Catalog) + 1
          /\ lastInit = NoInit
          /\ cstat = "idle"
          /\ InitCall(Len(arena), signature(inputs))
    \/ \E inputs \in SeqsOf(Tensors, 0, MaxInputs) :
          /\ Len(arena) > Len(Catalog) + 1
          /\ cstat = "idle"
          /\ Call(Len(arena), inputs)
    \/ StepSerial
    \/ Return

SpecResidual == Init /\ [][NextResidual]_vars

\* The leaf layers of SpecNested: the F, G, H of Branch's docstring, which
\* differ in arity and tell the order of their inputs and outputs.
NestedParts == {IdOf("F"), IdOf("G"), IdOf("H")}

\* A combinator is built from leaf layers, then a Serial from leaf layers and
\* that combinator, and the Serial is called with as many inputs as it takes.
NextNested ==
    \/ \E subs \in SeqsOf(NestedParts, 0, MaxSeries) :
          Len(arena) = Len(Catalog) /\ MakeSerial(subs)
    \/ \E subs \in SeqsOf(NestedParts, 0, MaxSeries) :
          Len(arena) = Len(Catalog) /\ MakeBranch(subs)
    \/ \E subs \in SeqsOf(NestedParts \cup {Len(Catalog) + 1}, 1, MaxSeries) :
          /\ Len(arena) = Len(Catalog) + 1
          /\ \E k \in 1..Len(subs) : subs[k] = Len(Catalog) + 1
          /\ MakeSerial(subs)
    \/ \E inputs \in SeqsOf(Tensors, 0, MaxInputs) :
          /\ Len(arena) = Len(Catalog) + 2
          /\ cstat = "idle"
          /\ Len(inputs) = arena[Len(arena)].n_in
          /\ Call(Len(arena), inputs)
    \/ StepSerial
    \/ Return

SpecNested == Init /\ [][NextNested]_vars

\* The layers a tree is built from in SpecTree: a layer with weights, a layer
\* whose output takes the larger of its inputs' shapes, and one whose output
\* has another shape than its inputs.
TreeParts == {IdOf("LayerNorm"), IdOf("Add"), IdOf("Concatenate")}

\* The leaf layers the root of the tree holds besides the combinator built
\* first: the layer with weights, shared with that combinator or not.
RootParts == {IdOf("LayerNorm")}

\* A tree of layers is built: a combinator from leaf layers, then a
\* combinator from that one and layer norms.  init is called once, at the
\* root, with the signature of the inputs; then the root is called with them.
NextTree ==
    \/ \E subs \in SeqsOf(TreeParts, 0, MaxSeries) :
          Len(arena) = Len(Catalog) /\ MakeSerial(subs)
    \/ \E subs \in SeqsOf(TreeParts, 0, MaxSeries) :
          Len(arena) = Len(Catalog) /\ MakeBranch(subs)
    \/ \E subs \in SeqsOf(RootParts \cup {Len(Catalog) + 1}, 1, MaxSeries) :
          /\ Len(arena) = Len(Catalog) + 1
          /\ \E k \in 1..Len(subs) : subs[k] = Len(Catalog) + 1
          /\ MakeSerial(subs)
    \/ \E subs \in SeqsOf(RootParts \cup {Len(Catalog) + 1}, 1, MaxSeries) :
          /\ Len(arena) = Len(Catalog) + 1
          /\ \E k \in 1..Len(subs) : subs[k] = Len(Catalog) + 1
          /\ MakeBranch(subs)
    \/ \E inputs \in SeqsOf(Tensors, 0, MaxInputs) :
          /\ Len(arena) = Len(Catalog) + 2
          /\ lastInit = NoInit
          /\ InitCall(Len(arena), signature(inputs))
    \/ \E inputs \in SeqsOf(Tensors, 0, MaxInputs) :
          /\ Len(arena) = Len(Catalog) + 2
          /\ cstat = "idle"
          /\ lastInit.root = Len(arena)
          /\ lastInit.err = NoErr
          /\ lastInit.sigs = signature(inputs)
          /\ Call(Len(arena), inputs)
    \/ StepSerial
    \/ \E i \in 1..MaxSeries : StepBranch(i)
    \/ Return

SpecTree == Init /\ [][NextTree]_vars

\* The layers a combinator is built from in SpecLifecycle: the layer with
\* weights and a layer without.
LifecycleParts == {IdOf("LayerNorm"), IdOf("Relu")}

\* One combinator is built from leaf layers; then init and direct calls are
\* made in any order and any number of times, on the combinator and on the
\* layer norm, init with any signatures and the calls with any tensors.
NextLifecycle ==
    \/ \E subs \in SeqsOf(LifecycleParts, 0, MaxSeries) :
          Len(arena) = Len(Catalog) /\ MakeSerial(subs)
    \/ \E subs \in SeqsOf(LifecycleParts, 0, MaxSeries) :
          Len(arena) = Len(Catalog) /\ MakeBranch(subs)
    \/ \E id \in {IdOf("LayerNorm"), Len(arena)} :
          \E sigs \in SeqsOf(Shapes, 0, MaxInputs) :
              Len(arena) > Len(Catalog) /\ InitCall(id, sigs)
    \/ \E id \in {IdOf("LayerNorm"), Len(arena)} :
          \E inputs \in SeqsOf(Tensors, 0, MaxInputs) :
              /\ Len(arena) > Len(Catalog)
              /\ Len(inputs) = arena[id].n_in
              /\ Call(id, inputs)
    \/ StepSerial
    \/ \E i \in 1..MaxSeries : StepBranch(i)
    \/ Return

SpecLifecycle == Init /\ [][NextLifecycle]_vars

----------------------------------------------------------------------------
(* Branch *)

\* The Branch(F, G, H) of Branch's docstring.
IsBranchFGH(id) ==
    /\ id \in Ids
    /\ arena[id].kind = "Branch"
    /\ arena[id].sublayers = << IdOf("F"), IdOf("G"), IdOf("H") >>

\* C1: Branch(F, G, H) called with inputs a, b, c returns exactly the four
\* outputs F(a), G(a, b, c), h1, h2, in that order, where (h1, h2) = H(a, b).
C1_BranchFanOut ==
    (cstat = "done" /\ IsBranchFGH(callee)) =>
        /\ Len(cargs) = 3
        /\ dstack = << F(cargs[1]),
                       G(cargs[1], cargs[2], cargs[3]),
                       H(cargs[1], cargs[2])[1],
                       H(cargs[1], cargs[2])[2] >>

\* Branch(F, G, H) has returned from a call whose inputs a, b differ.
C1_Witness ==
    /\ cstat = "done"
    /\ IsBranchFGH(callee)
    /\ cargs[1] # cargs[2]
    /\ cargs[2] # cargs[3]

\* The largest n_in among the sublayers, 0 when there are none.
MaxNIn(ar, subs) ==
    IF subs = <<>> THEN 0
    ELSE CHOOSE m \in { NIn(ar, subs[i]) : i \in 1..Len(subs) } :
            \A i \in 1..Len(subs) : NIn(ar, subs[i]) <= m

\* C2: every Branch declares n_in equal to the maximum of its sublayers' n_in
\* and n_out equal to the sum of its sublayers' n_out; Branch(relu, times_10)
\* reports n_in = 1 and n_out = 2.
C2_BranchArity ==
    \A id \in Ids :
        arena[id].kind = "Branch" =>
            /\ arena[id].n_in = MaxNIn(arena, arena[id].sublayers)
            /\ arena[id].n_out =
                   SumSeq([i \in 1..Len(arena[id].sublayers) |->
                              NOut(arena, arena[id].sublayers[i])])
            /\ arena[id].sublayers = << IdOf("Relu"), IdOf("Fn") >> =>
                   (arena[id].n_in = 1 /\ arena[id].n_out = 2)

\* A Branch of sublayers with different n_in has been built and has returned
\* as many outputs as it declares.
C2_Witness ==
    /\ cstat = "done"
    /\ arena[callee].kind = "Branch"
    /\ Len(arena[callee].sublayers) >= 2
    /\ \E i, j \in 1..Len(arena[callee].sublayers) :
          NIn(arena, arena[callee].sublayers[i]) < NIn(arena, arena[callee].sublayers[j])
    /\ Len(dstack) = arena[callee].n_out

\* C3: every sublayer of a Branch reads its inputs from the stack as it was
\* before the Branch, whichever siblings were evaluated before it, so the
\* Branch returns the same outputs in every evaluation order: those of the
\* evaluation in sublayer order.
C3_BranchOrderIndependent ==
    (callee # NoneId /\ arena[callee].kind = "Branch" /\ cstat \in {"running", "done"}) =>
        /\ \A i \in 1..Len(slots) :
              slots[i].done =>
                 slots[i].outs =
                    Forward(arena, store, arena[callee].sublayers[i],
                            SubSeq(cargs, 1, NIn(arena, arena[callee].sublayers[i]))).outs
        /\ cstat = "done" => dstack = Forward(arena, store, callee, cargs).outs

\* A Branch has returned after evaluating its sublayers in another order
\* than the declared one, the later sublayer needing fewer inputs.
C3_Witness ==
    /\ cstat = "done"
    /\ arena[callee].kind = "Branch"
    /\ Len(order) >= 2
    /\ order[1] > order[2]
    /\ NIn(arena, arena[callee].sublayers[order[1]])
          # NIn(arena, arena[callee].sublayers[order[2]])
    /\ cargs[1] # cargs[2]

----------------------------------------------------------------------------
(* Serial *)

\* Each sublayer gives as many outputs as the next one takes inputs.
Chained(ar, subs) ==
    \A k \in 1..(Len(subs) - 1) : NOut(ar, subs[k]) = NIn(ar, subs[k + 1])

\* g(f(x)) for the first n of the layers f, g, ...: function composition.
RECURSIVE Composed(_, _, _, _, _)
Composed(ar, st, subs, n, xs) ==
    IF n = 0 THEN xs
    ELSE Forward(ar, st, subs[n], Composed(ar, st, subs, n - 1, xs)).outs

\* C4: Serial applies its sublayers left to right in declared order, each
\* consuming what its predecessor left on the stack; when each sublayer's
\* n_out equals the next one's n_in, Serial(f, g) applied to x returns
\* g(f(x)).
C4_SerialComposes ==
    (/\ callee # NoneId
     /\ arena[callee].kind = "Serial"
     /\ cstat \in {"running", "done"}
     /\ Chained(arena, arena[callee].sublayers)
     /\ arena[callee].sublayers # <<>>) =>
        /\ dstack = Composed(arena, store, arena[callee].sublayers, pc - 1, cargs)
        /\ cstat = "done" =>
              dstack = Composed(arena, store, arena[callee].sublayers,
                                Len(arena[callee].sublayers), cargs)

\* Example 4, layer_norm(relu(x)), has returned for an x on which the two
\* layers do not commute.
C4_Witness ==
    /\ cstat = "done"
    /\ arena[callee].sublayers = << IdOf("Relu"), IdOf("LayerNorm") >>
    /\ dstack # Forward(arena, store, IdOf("Relu"),
                        Forward(arena, store, IdOf("LayerNorm"), cargs).outs).outs

\* The dry run of a sublayer list over the declared arities, from a stack of
\* depth placeholders: whether no sublayer found too few items, and the depth
\* of the stack at the end.
RECURSIVE DryRun(_, _, _, _)
DryRun(ar, subs, k, depth) ==
    IF k > Len(subs) THEN [ok |-> TRUE, depth |-> depth]
    ELSE IF depth < NIn(ar, subs[k]) THEN [ok |-> FALSE, depth |-> depth]
    ELSE DryRun(ar, subs, k + 1, depth - NIn(ar, subs[k]) + NOut(ar, subs[k]))

\* C5: for every Serial, running its sublayers from a stack of exactly n_in
\* items never takes an item from an empty stack and leaves exactly n_out
\* items, in the dry run over the declared arities as in a call; n_in and
\* n_out are what the dry run gives: with one item less it runs short.
C5_StackArityLaw ==
    /\ \A id \in Ids :
          arena[id].kind = "Serial" =>
             /\ DryRun(arena, arena[id].sublayers, 1, arena[id].n_in)
                   = [ok |-> TRUE, depth |-> arena[id].n_out]
             /\ arena[id].n_in > 0 =>
                   ~DryRun(arena, arena[id].sublayers, 1, arena[id].n_in - 1).ok
    /\ (callee # NoneId /\ arena[callee].kind = "Serial") =>
          /\ cerr # "StackUnderflowError"
          /\ (cstat = "running" /\ pc = 1) => Len(dstack) = arena[callee].n_in
          /\ (cstat = "running" /\ pc <= Len(arena[callee].sublayers)) =>
                Len(dstack) >= NIn(arena, arena[callee].sublayers[pc])
          /\ cstat = "done" => Len(dstack) = arena[callee].n_out

\* A Serial whose later sublayer reaches below what its predecessor left
\* (it takes more than the first sublayer alone) has returned.
C5_Witness ==
    /\ cstat = "done"
    /\ arena[callee].kind = "Serial"
    /\ Len(arena[callee].sublayers) >= 2
    /\ arena[callee].n_in > NIn(arena, arena[callee].sublayers[1])
    /\ arena[callee].n_out > 1

----------------------------------------------------------------------------
(* init *)

\* The last init call was made on an initialized layer object.
Reinit == lastInit.root # NoneId /\ ~lastInit.first

\* C7 as claimed: init on an initialized layer object returns the object's
\* stored (weights, state).
C7_ReinitReturnsStored ==
    Reinit =>
        /\ lastInit.weights = store[lastInit.root].weights
        /\ lastInit.state = store[lastInit.root].state

\* C7 as amended: init on an initialized layer object initializes nothing
\* again, whatever the signatures: the stored weights and state of every
\* layer object stay as they were and no sublayer is visited; the call
\* returns EMPTY_WEIGHTS for the weights, not the stored weights.
C7_ReinitLeavesStored ==
    Reinit =>
        /\ \A id \in DOMAIN lastInit.before : store[id] = lastInit.before[id]
        /\ lastInit.log = << Visit(lastInit.root, lastInit.sigs, FALSE) >>
        /\ lastInit.err = NoErr
        /\ lastInit.weights = EMPTY_WEIGHTS
        /\ lastInit.state = store[lastInit.root].state

\* init was called again on the layer norm, with a signature its weights
\* were not created for.
C7_Witness ==
    /\ Reinit
    /\ lastInit.root = IdOf("LayerNorm")
    /\ store[lastInit.root].weights # LeafNewWeights("LayerNorm", lastInit.sigs)

\* C8: init returns a (weights, state) pair whose weights are the newly
\* created weights on the first call for a layer object (the ones then stored
\* in it) and EMPTY_WEIGHTS on every subsequent call for that object.
C8_InitReturn ==
    (lastInit.root # NoneId /\ lastInit.err = NoErr) =>
        IF lastInit.first
        THEN /\ lastInit.weights = store[lastInit.root].weights
             /\ store[lastInit.root].init_finished
             /\ ~IsCombinator(arena, lastInit.root) =>
                   lastInit.weights =
                      LeafNewWeights(arena[lastInit.root].kind, lastInit.sigs)
             /\ IsCombinator(arena, lastInit.root) =>
                   /\ lastInit.weights.tag = "comp"
                   /\ Len(lastInit.weights.subs) = Len(arena[lastInit.root].sublayers)
        ELSE lastInit.weights = EMPTY_WEIGHTS

\* init was called again on a combinator that holds the weights of a layer
\* norm.
C8_Witness ==
    /\ Reinit
    /\ IsCombinator(arena, lastInit.root)
    /\ \E k \in 1..Len(arena[lastInit.root].sublayers) :
          /\ arena[lastInit.root].sublayers[k] = IdOf("LayerNorm")
          /\ store[lastInit.root].weights.subs[k] # EMPTY_WEIGHTS

\* In how many places of the tree under root the layer object id occurs.
RECURSIVE Places(_, _, _)
Places(ar, root, id) ==
    IF root = NoneId THEN 0
    ELSE (IF root = id THEN 1 ELSE 0)
         + SumSeq([k \in 1..Len(ar[root].sublayers) |-> Places(ar, ar[root].sublayers[k], id)])

\* The entries of an init log that are about the layer object id.
VisitsOf(log, id) == SelectSeq(log, LAMBDA v : v.id = id)

\* C9: when the same layer object occurs in two or more places of a tree,
\* initializing the tree at the root creates that object's weights exactly
\* once, at the first place the walk reaches; every place of the object then
\* has those same weights.
C9_SharedInitOnce ==
    (lastInit.root # NoneId /\ lastInit.first /\ lastInit.err = NoErr) =>
        \A id \in Ids :
            Places(arena, lastInit.root, id) >= 2 =>
                /\ store[id].init_finished
                /\ store[id].n_init = 1
                /\ Len(VisitsOf(lastInit.log, id)) = Places(arena, lastInit.root, id)
                /\ \A k \in 2..Len(VisitsOf(lastInit.log, id)) :
                      ~VisitsOf(lastInit.log, id)[k].first
                /\ store[id].weights =
                      IF lastInit.before[id].init_finished
                      THEN lastInit.before[id].weights
                      ELSE LeafNewWeights(arena[id].kind,
                                          VisitsOf(lastInit.log, id)[1].sigs)

\* A tree in which the layer norm, not initialized before, occurs in two
\* places or more has been initialized at its root.
C9_Witness ==
    /\ lastInit.root # NoneId
    /\ lastInit.first
    /\ Places(arena, lastInit.root, IdOf("LayerNorm")) >= 2
    /\ ~lastInit.before[IdOf("LayerNorm")].init_finished
    /\ store[IdOf("LayerNorm")].weights # EMPTY_WEIGHTS

\* The init walk reached the layer object id in two places with different
\* signatures.
Conflict(log, id) ==
    \E i, j \in 1..Len(log) :
        log[i].id = id /\ log[j].id = id /\ log[i].sigs # log[j].sigs

\* C10 as claimed: when the init walk reaches the same layer object in two
\* places whose signatures differ, init is rejected with a signature
\* conflict.
C10_ConflictRejected ==
    (lastInit.root # NoneId /\ \E id \in Ids : Conflict(lastInit.log, id)) =>
        lastInit.err = "SignatureConflictError"

\* C10 as amended: when the init walk reaches the same layer object in two
\* places whose signatures differ, init raises no error; the object is not
\* initialized again: it keeps the weights created for the first signature
\* it was initialized with, and the later place gets EMPTY_WEIGHTS.
C10_ConflictKeepsFirst ==
    (lastInit.root # NoneId) =>
        \A id \in Ids :
            Conflict(lastInit.log, id) =>
                /\ lastInit.err = NoErr
                /\ store[id].n_init = 1
                /\ \A k \in 2..Len(VisitsOf(lastInit.log, id)) :
                      ~VisitsOf(lastInit.log, id)[k].first
                /\ store[id].weights =
                      IF lastInit.before[id].init_finished
                      THEN lastInit.before[id].weights
                      ELSE LeafNewWeights(arena[id].kind,
                                          VisitsOf(lastInit.log, id)[1].sigs)
                /\ \A k \in 1..Len(arena[lastInit.root].sublayers) :
                      (/\ arena[lastInit.root].sublayers[k] = id
                       /\ \E j \in 1..(k - 1) : arena[lastInit.root].sublayers[j] = id) =>
                          store[lastInit.root].weights.subs[k] = EMPTY_WEIGHTS

\* The walk reached the layer norm with one signature and then, behind a
\* Concatenate, with another; the weights are those of the first.
C10_Witness ==
    /\ lastInit.root # NoneId
    /\ lastInit.first
    /\ Conflict(lastInit.log, IdOf("LayerNorm"))
    /\ ~lastInit.before[IdOf("LayerNorm")].init_finished
    /\ store[IdOf("LayerNorm")].weights
          # LeafNewWeights("LayerNorm", lastInit.log[Len(lastInit.log)].sigs)

----------------------------------------------------------------------------
(* Direct calls *)

\* C11: a direct call of a layer that requires weights and was not
\* initialized ends with the uninitialized-layer error and no outputs; a
\* layer with no weights and no sublayers that was never initialized returns
\* what its function gives on the inputs.
C11_UninitializedLayer ==
    ( /\ callee # NoneId
      /\ cstat \in {"done", "error"}
      /\ ~IsCombinator(arena, callee)
      /\ Len(cargs) = arena[callee].n_in
      /\ ~store[callee].init_finished ) =>
        IF HasWeights(arena[callee].kind)
        THEN /\ cstat = "error"
             /\ cerr = "UninitializedLayerError"
             /\ dstack = <<>>
        ELSE /\ cstat = "done"
             /\ cerr = NoErr
             /\ dstack = LeafForward(arena[callee].kind, cargs, EMPTY_WEIGHTS).outs

\* The layer norm was called with one input before any init.
C11_Witness ==
    /\ callee = IdOf("LayerNorm")
    /\ Len(cargs) = 1
    /\ store[callee].n_init = 0
    /\ cerr = "UninitializedLayerError"

\* C12: a direct call with a number of inputs other than the layer's n_in
\* ends with the arity-mismatch error and no outputs, and only such a call
\* does.
C12_ArityMismatch ==
    (callee # NoneId /\ cstat \in {"done", "error"}) =>
        /\ (Len(cargs) # arena[callee].n_in) <=> (cerr = "ArityMismatchError")
        /\ (Len(cargs) # arena[callee].n_in) => (cstat = "error" /\ dstack = <<>>)

\* A layer was called with more inputs than its n_in, and with fewer.
C12_Witness ==
    /\ callee # NoneId
    /\ cerr = "ArityMismatchError"
    /\ Len(cargs) > arena[callee].n_in
    /\ arena[callee].n_in > 0

----------------------------------------------------------------------------
(* Residual *)

\* In SpecResidual the Residual is the last layer object built, after the
\* leaf layers and the one Serial.
ResidualBuilt == Len(arena) > Len(Catalog) + 1

TheResidual == Len(arena)

\* The Residual is Serial(Branch(shortcut, layer), Add()), each of the three
\* with the arity its combinator gives it.
ResidualShape ==
    /\ arena[TheResidual].kind = "Serial"
    /\ Len(arena[TheResidual].sublayers) = 2
    /\ LET branch == arena[TheResidual].sublayers[1]
           add    == arena[TheResidual].sublayers[2]
       IN  /\ arena[branch].kind = "Branch"
           /\ Len(arena[branch].sublayers) = 2
           /\ arena[branch] = Branch(arena, arena[branch].sublayers)
           /\ arena[add] = Leaf("Add")
           /\ add > Len(Catalog)
           /\ arena[TheResidual] = Serial(arena, << branch, add >>)

\* The shortcut (NoneId when none was given) and the layer of the Residual.
TheShortcut == arena[arena[TheResidual].sublayers[1]].sublayers[1]

TheLayer == arena[arena[TheResidual].sublayers[1]].sublayers[2]

\* The layer series of the Residual: the sublayers of the Serial that wraps
\* them, or the one layer.
TheSeries ==
    IF arena[TheLayer].kind = "Serial" /\ TheLayer > Len(Catalog) + 1
    THEN arena[TheLayer].sublayers
    ELSE << TheLayer >>

\* Both the shortcut and the layer series take one input and give one output.
SingleStream ==
    /\ NIn(arena, TheShortcut) = 1 /\ NOut(arena, TheShortcut) = 1
    /\ NIn(arena, TheLayer) = 1 /\ NOut(arena, TheLayer) = 1

\* shortcut(x) + layers(x) for the inputs of the call, shortcut(x) being x
\* when no shortcut was given.
ShortcutPlusLayers ==
    LET sx == IF TheShortcut = NoneId THEN cargs[1]
              ELSE Forward(arena, store, TheShortcut, cargs).outs[1]
        lx == Composed(arena, store, TheSeries, Len(TheSeries), cargs)[1]
    IN  << [i \in 1..Max2(Len(sx), Len(lx)) |->
               BroadcastAt(sx, i) + BroadcastAt(lx, i)] >>

\* C13 as stated, for every layer series: the Residual is
\* Serial(Branch(shortcut, layer), Add) whose Branch has n_in = 1 and
\* n_out = 2 and which is itself 1-in/1-out, and returns
\* shortcut(x) + layers(x).
C13_ResidualOneInOneOut ==
    ResidualBuilt =>
        /\ ResidualShape
        /\ arena[arena[TheResidual].sublayers[1]].n_in = 1
        /\ arena[arena[TheResidual].sublayers[1]].n_out = 2
        /\ arena[TheResidual].n_in = 1
        /\ arena[TheResidual].n_out = 1
        /\ (callee = TheResidual /\ cstat = "done") => dstack = ShortcutPlusLayers

\* C13, amended: Residual(layers) is exactly Serial(Branch(shortcut, layer),
\* Add) with no special-casing, Add having n_in = 2 and n_out = 1; when the
\* layer series and the shortcut each take one input and give one output,
\* the Branch has n_in = 1 and n_out = 2, the whole Residual is 1-in/1-out,
\* and for every input x it returns shortcut(x) + layers(x), with
\* shortcut(x) = x when no shortcut is given.
C13_ResidualSingleStream ==
    ResidualBuilt =>
        /\ ResidualShape
        /\ SingleStream =>
              /\ arena[arena[TheResidual].sublayers[1]].n_in = 1
              /\ arena[arena[TheResidual].sublayers[1]].n_out = 2
              /\ arena[TheResidual].n_in = 1
              /\ arena[TheResidual].n_out = 1
              /\ (callee = TheResidual /\ cstat = "done") =>
                    dstack = ShortcutPlusLayers

\* A Residual with no shortcut over a series of two layers, the layer norm
\* among them, has returned something other than its input.
C13_Witness ==
    /\ ResidualBuilt
    /\ SingleStream
    /\ TheShortcut = NoneId
    /\ Len(TheSeries) = 2
    /\ \E k \in 1..2 : TheSeries[k] = IdOf("LayerNorm")
    /\ callee = TheResidual
    /\ cstat = "done"
    /\ dstack # cargs

\* The layer series gives, for the inputs of the call, the zero tensor of
\* the shape of x.
InnerZero ==
    /\ Len(cargs) >= NIn(arena, TheLayer)
    /\ LET r == Forward(arena, store, TheLayer, SubSeq(cargs, 1, NIn(arena, TheLayer)))
       IN  /\ r.err = NoErr
           /\ r.outs = << [i \in 1..Len(cargs[1]) |-> 0] >>

----------------------------------------------------------------------------
(* None in a Branch *)

\* The number of outputs of the sublayers before the i-th, a None counted as
\* one output.
RECURSIVE OutputsBefore(_, _, _)
OutputsBefore(ar, subs, i) ==
    IF i = 1 THEN 0
    ELSE OutputsBefore(ar, subs, i - 1)
            + (IF subs[i - 1] = NoneId THEN 1 ELSE ar[subs[i - 1]].n_out)

\* C15: a None sublayer of a Branch is the identity pass-through of exactly
\* one value: it counts as n_in = 1, n_out = 1 in the Branch's arity, and the
\* Branch's output at its position is the first input of the Branch,
\* unchanged.
C15_NoneIsIdentity ==
    /\ \A id \in Ids :
          (arena[id].kind = "Branch" /\ \E i \in 1..Len(arena[id].sublayers) :
                                            arena[id].sublayers[i] = NoneId) =>
             LET subs == arena[id].sublayers
                 ins  == { IF subs[i] = NoneId THEN 1 ELSE arena[subs[i]].n_in :
                              i \in 1..Len(subs) }
             IN  /\ arena[id].n_in \in ins
                 /\ \A n \in ins : n <= arena[id].n_in
                 /\ arena[id].n_out = OutputsBefore(arena, subs, Len(subs) + 1)
    /\ (callee # NoneId /\ arena[callee].kind = "Branch") =>
          \A i \in 1..Len(arena[callee].sublayers) :
             arena[callee].sublayers[i] = NoneId =>
                /\ (cstat = "running" /\ slots[i].done) => slots[i].outs = << cargs[1] >>
                /\ cstat = "done" =>
                      dstack[OutputsBefore(arena, arena[callee].sublayers, i) + 1]
                         = cargs[1]

\* Branch(relu, None), the shape of Residual's Branch, has returned for an
\* input the relu changes.
C15_Witness ==
    /\ callee # NoneId
    /\ arena[callee].kind = "Branch"
    /\ arena[callee].sublayers = << IdOf("Relu"), NoneId >>
    /\ cstat = "done"
    /\ dstack[1] # cargs[1]
    /\ dstack[2] = cargs[1]

----------------------------------------------------------------------------
(* Nested Serials *)

\* The layers of a sublayer list in order, every Serial among them replaced
\* by its own layers.
RECURSIVE FlatLayers(_, _)
FlatLayers(ar, subs) ==
    IF subs = <<>> THEN <<>>
    ELSE (IF ar[Head(subs)].kind = "Serial"
          THEN FlatLayers(ar, ar[Head(subs)].sublayers)
          ELSE << Head(subs) >>)
         \o FlatLayers(ar, Tail(subs))

\* The layers of a flat list applied one after the other to the stack, from
\* the k-th on: each takes its n_in items off the top and its outputs take
\* their place.
RECURSIVE FlatRun(_, _, _, _, _)
FlatRun(ar, st, flat, k, stack) ==
    IF k > Len(flat) THEN [err |-> NoErr, outs |-> stack]
    ELSE IF Len(stack) < ar[flat[k]].n_in
         THEN [err |-> "StackUnderflowError", outs |-> stack]
    ELSE LET n == ar[flat[k]].n_in
             r == Forward(ar, st, flat[k], [i \in 1..n |-> stack[i]])
         IN  IF r.err # NoErr THEN r
             ELSE FlatRun(ar, st, flat, k + 1,
                          r.outs \o [i \in 1..(Len(stack) - n) |-> stack[n + i]])

\* C16: a Serial containing nested Serials declares the n_in and n_out of the
\* flat Serial of the same layers in the same order, and gives the same
\* outputs (or fails alike) on every input stack, worked out for each
\* Serial once it is built and again by stepping through the call.
C16_SerialFlattening ==
    /\ \A id \in Ids :
          arena[id].kind = "Serial" =>
             LET flat == FlatLayers(arena, arena[id].sublayers)
             IN  /\ Serial(arena, flat).n_in = arena[id].n_in
                 /\ Serial(arena, flat).n_out = arena[id].n_out
                 /\ \A xs \in SeqsOf(Tensors, 0, MaxInputs) :
                       cstat = "idle" =>
                       LET nested == Forward(arena, store, id, xs)
                           plain  == FlatRun(arena, store, flat, 1, xs)
                       IN  /\ nested.err = plain.err
                           /\ nested.err = NoErr => nested.outs = plain.outs
    /\ (callee # NoneId /\ arena[callee].kind = "Serial" /\ cstat = "done") =>
          dstack = FlatRun(arena, store,
                           FlatLayers(arena, arena[callee].sublayers), 1, cargs).outs

\* A Serial of two sublayers, one of them a Serial of two layers, has
\* returned from a call.
C16_Witness ==
    /\ callee = Len(Catalog) + 2
    /\ cstat = "done"
    /\ arena[Len(Catalog) + 1].kind = "Serial"
    /\ Len(arena[Len(Catalog) + 1].sublayers) = 2
    /\ Len(arena[callee].sublayers) = 2
    /\ Len(FlatLayers(arena, arena[callee].sublayers)) = 3
    /\ dstack # cargs

\* The id is a Serial of no sublayers.
IsEmptySerial(id) == arena[id].kind = "Serial" /\ arena[id].sublayers = <<>>

----------------------------------------------------------------------------
(* The data stack, step by step *)

\* The n items nearest the top of the stack, the top first.
TopItems(stack, n) == [i \in 1..n |-> stack[i]]

\* The items of the stack below the n nearest the top.
BelowItems(stack, n) == [i \in 1..(Len(stack) - n) |-> stack[n + i]]

Reversed(s) == [i \in 1..Len(s) |-> s[Len(s) + 1 - i]]

\* The sublayer the Serial being called is about to apply.
NextSublayer == arena[callee].sublayers[pc]

\* The Serial being called applies a leaf sublayer, without error.
SerialAppliesLeaf ==
    /\ cstat = "running"
    /\ arena[callee].kind = "Serial"
    /\ pc <= Len(arena[callee].sublayers)
    /\ ~IsCombinator(arena, NextSublayer)
    /\ pc' = pc + 1
    /\ cerr' = NoErr

\* What the leaf sublayer about to be applied gives for the inputs xs.
LeafOutputs(xs) ==
    LeafForward(arena[NextSublayer].kind, xs, store[NextSublayer].weights).outs

\* C18 as stated: the sublayer is called with the n_in items off the top of
\* the stack, the item nearest the top as its last argument and the deepest
\* as its first.
C18_TopIsLastArgument ==
    [][SerialAppliesLeaf =>
          LET n == arena[NextSublayer].n_in
          IN  /\ Len(dstack) >= n
              /\ TopItems(dstack', arena[NextSublayer].n_out)
                    = LeafOutputs(Reversed(TopItems(dstack, n)))]_vars

\* C18, amended: before calling sublayer k the Serial removes exactly
\* k.n_in items from the top of the stack and passes them as k's inputs in
\* stack order: the item nearest the top is k's first argument and the
\* deepest removed item is its last.
C18_TopIsFirstArgument ==
    [][SerialAppliesLeaf =>
          LET n == arena[NextSublayer].n_in
          IN  /\ Len(dstack) >= n
              /\ TopItems(dstack', arena[NextSublayer].n_out)
                    = LeafOutputs(TopItems(dstack, n))]_vars

\* Serial(G, ...) has applied G to three inputs of which the first and the
\* last differ: the stack holds G(a, b, c) for the inputs a, b, c, a on top.
C18_Witness ==
    /\ callee # NoneId
    /\ arena[callee].kind = "Serial"
    /\ cstat \in {"running", "done"}
    /\ pc = 2
    /\ arena[callee].sublayers[1] = IdOf("G")
    /\ cargs[1] # cargs[3]
    /\ dstack[1] = G(cargs[1], cargs[2], cargs[3])

\* C19 as stated: the sublayer's n_out outputs are pushed so that its first
\* output is the deepest of the new group and its last output is on top.
C19_LastOutputOnTop ==
    [][SerialAppliesLeaf =>
          LET n    == arena[NextSublayer].n_in
              outs == LeafOutputs(TopItems(dstack, n))
          IN  /\ Len(outs) = arena[NextSublayer].n_out
              /\ Len(dstack') = Len(dstack) - n + Len(outs)
              /\ \A j \in 1..Len(outs) : dstack'[j] = outs[Len(outs) + 1 - j]]_vars

\* C19, amended: after calling sublayer k the Serial pushes exactly k.n_out
\* outputs onto the stack in output order: k's first output is on top of the
\* stack and its last output is the deepest of the newly pushed group.
C19_FirstOutputOnTop ==
    [][SerialAppliesLeaf =>
          LET n    == arena[NextSublayer].n_in
              outs == LeafOutputs(TopItems(dstack, n))
          IN  /\ Len(outs) = arena[NextSublayer].n_out
              /\ Len(dstack') = Len(dstack) - n + Len(outs)
              /\ \A j \in 1..Len(outs) : dstack'[j] = outs[j]]_vars

\* Serial(H, ...) has applied H: its two outputs h1, h2, which differ, are
\* on the stack, h1 on top.
C19_Witness ==
    /\ callee # NoneId
    /\ arena[callee].kind = "Serial"
    /\ cstat \in {"running", "done"}
    /\ pc = 2
    /\ arena[callee].sublayers[1] = IdOf("H")
    /\ dstack[1] = H(cargs[1], cargs[2])[1]
    /\ dstack[2] = H(cargs[1], cargs[2])[2]
    /\ dstack[1] # dstack[2]

\* The Serial being called applies a sublayer that is a Serial or a Branch,
\* without error.
SerialAppliesCombinator ==
    /\ cstat = "running"
    /\ arena[callee].kind = "Serial"
    /\ pc <= Len(arena[callee].sublayers)
    /\ IsCombinator(arena, NextSublayer)
    /\ pc' = pc + 1
    /\ cerr' = NoErr

\* C20: a Serial or Branch with arity (n_in, n_out) applied to a stack of
\* depth d >= n_in leaves a stack of depth d - n_in + n_out on which every
\* item that was below the top n_in items is still present, unchanged and in
\* the same order; given the whole stack instead of its n_in items, its
\* sublayers neither see nor alter the items below.
C20_FrameEffect ==
    [][SerialAppliesCombinator =>
          LET n == arena[NextSublayer].n_in
              m == arena[NextSublayer].n_out
          IN  /\ Len(dstack) >= n
              /\ Len(dstack') = Len(dstack) - n + m
              /\ BelowItems(dstack', m) = BelowItems(dstack, n)
              /\ Forward(arena, store, NextSublayer, dstack).err = NoErr
              /\ Forward(arena, store, NextSublayer, dstack).outs = dstack'
              /\ Forward(arena, store, NextSublayer, TopItems(dstack, n)).outs
                    = TopItems(dstack', m)]_vars

\* A Serial has applied a combinator of one input to a stack of three
\* different items: the two items below are where they were.
C20_Witness ==
    /\ callee # NoneId
    /\ arena[callee].kind = "Serial"
    /\ cstat \in {"running", "done"}
    /\ pc = 2
    /\ IsCombinator(arena, arena[callee].sublayers[1])
    /\ arena[arena[callee].sublayers[1]].n_in = 1
    /\ Len(cargs) = 3
    /\ cargs[2] # cargs[3]
    /\ dstack[1] # cargs[1]
    /\ BelowItems(dstack, arena[arena[callee].sublayers[1]].n_out) = << cargs[2], cargs[3] >>

----------------------------------------------------------------------------
(* The weights of a combinator *)

\* The last init call was the first on a combinator and ended without error.
CombinatorInitialized ==
    /\ lastInit.root # NoneId
    /\ lastInit.first
    /\ lastInit.err = NoErr
    /\ IsCombinator(arena, lastInit.root)

\* The weights and the state stored in the layer object id (None has none).
OwnWeights(id) == IF id = NoneId THEN EMPTY_WEIGHTS ELSE store[id].weights

OwnState(id) == IF id = NoneId THEN EMPTY_STATE ELSE store[id].state

\* The k-th sublayer of the combinator just initialized was initialized
\* before the walk reached it there: by an earlier init call, or at an
\* earlier place of the walk.
InitializedBefore(k) ==
    LET subs == arena[lastInit.root].sublayers
    IN  /\ subs[k] # NoneId
        /\ \/ lastInit.before[subs[k]].init_finished
           \/ \E j \in 1..(k - 1) : Places(arena, subs[j], subs[k]) >= 1

\* C21 as claimed: after init, a combinator's weights and state have one
\* entry per sublayer, in sublayer order, entry i being sublayer i's own
\* weights (its own state).
C21_EntryIsOwnWeights ==
    CombinatorInitialized =>
        LET subs == arena[lastInit.root].sublayers
        IN  /\ store[lastInit.root].weights.tag = "comp"
            /\ store[lastInit.root].weights.subs =
                  [k \in 1..Len(subs) |-> OwnWeights(subs[k])]
            /\ store[lastInit.root].state.tag = "comp"
            /\ store[lastInit.root].state.subs =
                  [k \in 1..Len(subs) |-> OwnState(subs[k])]

\* C21 as amended: after init, a combinator's weights and state have one
\* entry per sublayer, in sublayer order; entry i is what init returned for
\* sublayer i: the sublayer's own weights where the walk initialized it,
\* EMPTY_WEIGHTS for a sublayer without weights and for a sublayer object
\* that was initialized before the walk reached that place.  The init call
\* returns that same sequence.
C21_EntryIsInitResult ==
    CombinatorInitialized =>
        LET subs == arena[lastInit.root].sublayers
        IN  /\ store[lastInit.root].weights.tag = "comp"
            /\ store[lastInit.root].weights.subs =
                  [k \in 1..Len(subs) |->
                      IF InitializedBefore(k) THEN EMPTY_WEIGHTS
                      ELSE OwnWeights(subs[k])]
            /\ store[lastInit.root].state.tag = "comp"
            /\ store[lastInit.root].state.subs =
                  [k \in 1..Len(subs) |-> OwnState(subs[k])]
            /\ lastInit.weights = store[lastInit.root].weights
            /\ lastInit.state = store[lastInit.root].state

\* A combinator of a relu followed by a layer norm, as in Example 4', has
\* been initialized: its weights are EMPTY_WEIGHTS and the layer norm's.
C21_Witness ==
    /\ CombinatorInitialized
    /\ arena[lastInit.root].sublayers = << IdOf("Relu"), IdOf("LayerNorm") >>
    /\ store[lastInit.root].weights.subs[1] = EMPTY_WEIGHTS
    /\ store[lastInit.root].weights.subs[2] = store[IdOf("LayerNorm")].weights
    /\ store[IdOf("LayerNorm")].weights # EMPTY_WEIGHTS

----------------------------------------------------------------------------
(* Signatures during init and data during forward *)

RECURSIVE ReceivedBy(_, _, _, _)
RECURSIVE ReceivedInSerial(_, _, _, _, _)
RECURSIVE ReceivedInBranch(_, _, _, _, _)

\* The layer objects a forward of the layer id on the inputs xs reaches, in
\* the order of the walk, each with the signature of the inputs it receives
\* there; the walk ends where forward is aborted.
ReceivedBy(ar, st, id, xs) ==
    IF id = NoneId THEN <<>>
    ELSE << [id |-> id, sigs |-> signature(xs)] >>
         \o (IF ar[id].kind = "Serial"
             THEN ReceivedInSerial(ar, st, ar[id].sublayers, 1, xs)
             ELSE IF ar[id].kind = "Branch"
             THEN ReceivedInBranch(ar, st, ar[id].sublayers, 1, xs)
             ELSE <<>>)

ReceivedInSerial(ar, st, subs, k, stack) ==
    IF k > Len(subs) \/ Len(stack) < NIn(ar, subs[k]) THEN <<>>
    ELSE ReceivedBy(ar, st, subs[k], SubSeq(stack, 1, NIn(ar, subs[k])))
         \o (LET r == SerialStep(ar, st, subs[k], stack)
             IN  IF r.err # NoErr THEN <<>>
                 ELSE ReceivedInSerial(ar, st, subs, k + 1, r.outs))

ReceivedInBranch(ar, st, subs, k, inputs) ==
    IF k > Len(subs) THEN <<>>
    ELSE ReceivedBy(ar, st, subs[k], SubSeq(inputs, 1, NIn(ar, subs[k])))
         \o (IF BranchSibling(ar, st, subs[k], inputs).err # NoErr THEN <<>>
             ELSE ReceivedInBranch(ar, st, subs, k + 1, inputs))

\* The last init call was the first on the root of a tree none of whose
\* layer objects was initialized before, ended without error, and went
\* through every place of the tree: no combinator occurs in it twice.
TreeInitialized ==
    /\ lastInit.root # NoneId
    /\ lastInit.first
    /\ lastInit.err = NoErr
    /\ \A id \in Ids :
          /\ Places(arena, lastInit.root, id) >= 1 => ~lastInit.before[id].init_finished
          /\ IsCombinator(arena, id) => Places(arena, lastInit.root, id) <= 1

----------------------------------------------------------------------------
(* init at the root, then forward *)

\* The layer objects of the tree under root.
Reachable(root) == { id \in Ids : Places(arena, root, id) >= 1 }

\* init was called at the root of a tree and ended without error.
RootInitialized == lastInit.root # NoneId /\ lastInit.err = NoErr

\* C25: after one successful init call at the root of a tree, every layer
\* object reachable from the root is initialized, and a forward call on the
\* root with inputs of the root signature raises no uninitialized-layer
\* error, at the root or at any sublayer.
C25_InitReachesAll ==
    RootInitialized =>
        /\ \A id \in Reachable(lastInit.root) : store[id].init_finished
        /\ (callee = lastInit.root /\ signature(cargs) = lastInit.sigs) =>
              cerr # "UninitializedLayerError"
        /\ cstat = "idle" =>
              \A xs \in SeqsOf(Tensors, Len(lastInit.sigs), Len(lastInit.sigs)) :
                  signature(xs) = lastInit.sigs =>
                      Forward(arena, store, lastInit.root, xs).err
                          # "UninitializedLayerError"

\* The root of a tree that holds the layer norm below a nested combinator
\* was initialized and then called with inputs of the root signature; the
\* call returned.
C25_Witness ==
    /\ RootInitialized
    /\ callee = lastInit.root
    /\ cstat = "done"
    /\ signature(cargs) = lastInit.sigs
    /\ \E id \in Reachable(lastInit.root) :
          /\ id # lastInit.root
          /\ IsCombinator(arena, id)
          /\ \E k \in 1..Len(arena[id].sublayers) :
                arena[id].sublayers[k] = IdOf("LayerNorm")
    /\ lastInit.before[IdOf("LayerNorm")].init_finished = FALSE
    /\ store[IdOf("LayerNorm")].weights # EMPTY_WEIGHTS

----------------------------------------------------------------------------
(* The life of a layer object *)

\* C23: initialized is terminal.  Whatever init and forward calls are made,
\* a layer object that is initialized stays initialized, and no later init
\* call replaces the weights stored in it, whatever signatures it is given.
C23_InitializedIsTerminal ==
    [][\A id \in Ids :
          store[id].init_finished =>
              /\ store'[id].init_finished
              /\ store'[id].weights = store[id].weights]_vars

\* After a call of the combinator returned, init was called again on the
\* combinator, which holds the layer norm, with a signature the layer norm's
\* weights were not created for.
C23_Witness ==
    /\ Reinit
    /\ IsCombinator(arena, lastInit.root)
    /\ cstat = "done"
    /\ callee = lastInit.root
    /\ \E k \in 1..Len(arena[lastInit.root].sublayers) :
          arena[lastInit.root].sublayers[k] = IdOf("LayerNorm")
    /\ lastInit.sigs # <<>>
    /\ store[IdOf("LayerNorm")].init_finished
    /\ store[IdOf("LayerNorm")].weights
          # LeafNewWeights("LayerNorm", << lastInit.sigs[1] >>)

\* A step of a direct call: the call itself, a sublayer applied by the
\* combinator being called, or the return.
ForwardStep ==
    \/ \E id \in Ids : \E inputs \in SeqsOf(Tensors, 0, MaxInputs) : Call(id, inputs)
    \/ StepSerial
    \/ \E i \in 1..MaxSubs : StepBranch(i)
    \/ Return

\* C24: a direct call, and every step of its forward, initializes nothing
\* and leaves the weights, the state and the initialized status stored in
\* every layer object as they were; the inputs the call was given stay as
\* they were given until it returns.
C24_ForwardKeepsStore ==
    [][ForwardStep =>
          /\ store' = store
          /\ lastInit' = lastInit
          /\ cstat = "running" => cargs' = cargs]_vars

\* The combinator, holding the layer norm, was called before any init: the
\* call ended with the uninitialized-layer error and the layer norm is as
\* uninitialized as before.
C24_Witness ==
    /\ cstat = "error"
    /\ cerr = "UninitializedLayerError"
    /\ IsCombinator(arena, callee)
    /\ lastInit = NoInit
    /\ \A id \in Ids : ~store[id].init_finished /\ store[id].weights = EMPTY_WEIGHTS

====
